---------------------------- MODULE Spec2Model ----------------------------
(***************************************************************************)
(* Model of plugins/audit/ssl_certificate.py (w3af audit plugin):          *)
(*   - ssl_certificate.audit: dedup on the domain, SSLv2 probe, strict     *)
(*     handshake, classification of the failure, expiry check, findings    *)
(*     appended to the knowledge base;                                     *)
(*   - _dnsname_to_pat and match_hostname (backports.ssl_match_hostname).  *)
(*                                                                         *)
(* A Python str is a sequence of one-character strings; the text of an     *)
(* ssl.SSLError is a sequence of tokens (words and ":").                   *)
(***************************************************************************)
EXTENDS Integers, Sequences, FiniteSets, TLC

(***************************************************************************)
(* Bounds of the model.                                                    *)
(***************************************************************************)
\* audit() calls of one run
MaxCalls == 2
\* characters of a DNS name handed to _dnsname_to_pat
MaxNameLen == 4
\* characters of a candidate hostname
MaxHostLen == 4
\* entries of a certificate's subjectAltName
MaxSan == 2
\* RDNs of a certificate's subject
MaxSubject == 2
\* colon-separated chunks of an ssl.SSLError text
MaxChunks == 7
\* date.today(), as a day number
Today == 100

(***************************************************************************)
(* Strings.                                                                *)
(***************************************************************************)
SeqsUpTo(S, n) == UNION {[1..k -> S] : k \in 0..n}

\* re.IGNORECASE folds case; the model's alphabet holds one upper-case letter.
Lower(ch) == IF ch = "B" THEN "b" ELSE ch

Contains(s, w) == \E i \in 1..Len(s) : s[i] = w

\* index of the first sep in s, 0 when there is none
RECURSIVE find(_, _, _)
find(s, sep, i) ==
    IF i > Len(s) THEN 0
    ELSE IF s[i] = sep THEN i
    ELSE find(s, sep, i + 1)

\* str.split(sep): always at least one piece, empty pieces kept
RECURSIVE split(_, _)
split(s, sep) ==
    LET i == find(s, sep, 1)
    IN  IF i = 0 THEN <<s>>
        ELSE <<SubSeq(s, 1, i - 1)>> \o split(SubSeq(s, i + 1, Len(s)), sep)

(***************************************************************************)
(* _dnsname_to_pat: a compiled pattern is a sequence of elements: a        *)
(* literal character (re.escape), "[^.]+", "[^.]*" or the joining "\\.".   *)
(***************************************************************************)
PLUS == "[^.]+"
STAR == "[^.]*"
DOT  == "\\."

\* lines 232-239: the pattern of one fragment
frag_pat(frag) ==
    IF Len(frag) = 1 /\ frag[1] = "*"
    THEN <<PLUS>>
    ELSE [i \in 1..Len(frag) |-> IF frag[i] = "*" THEN STAR ELSE frag[i]]

\* r'\.'.join(pats)
RECURSIVE join(_, _)
join(pats, sep) ==
    IF Len(pats) = 0 THEN <<>>
    ELSE IF Len(pats) = 1 THEN pats[1]
    ELSE pats[1] \o <<sep>> \o join(Tail(pats), sep)

dnsname_to_pat(dn) ==
    LET frags == split(dn, ".")
    IN  join([i \in 1..Len(frags) |-> frag_pat(frags[i])], DOT)

\* (as elem_accepts, with a wildcard that runs over dots: ".*" for "[^.]*")
elem_accepts_any(el, ch) ==
    IF el \in {PLUS, STAR} THEN TRUE
    ELSE IF el = DOT THEN ch = "."
    ELSE Lower(el) = Lower(ch)
\* (as elem_accepts, with the fragments joined by an unescaped ".")
elem_accepts_dot_any(el, ch) ==
    IF el \in {PLUS, STAR} THEN ch # "."
    ELSE IF el = DOT THEN TRUE
    ELSE Lower(el) = Lower(ch)
\* whether one pattern element accepts one character
elem_accepts(el, ch) ==
    IF el \in {PLUS, STAR} THEN ch # "."
    ELSE IF el = DOT THEN ch = "."
    ELSE Lower(el) = Lower(ch)

\* re.compile(r'\A' + ... + r'\Z', re.IGNORECASE).match(s): the whole of s
RECURSIVE pat_match(_, _)
pat_match(pat, s) ==
    IF Len(pat) = 0 THEN Len(s) = 0
    ELSE IF pat[1] = STAR
         THEN \/ pat_match(Tail(pat), s)
              \/ Len(s) > 0 /\ elem_accepts(STAR, s[1]) /\ pat_match(pat, Tail(s))
    ELSE IF pat[1] = PLUS
         THEN Len(s) > 0 /\ elem_accepts(PLUS, s[1])
              /\ pat_match(<<STAR>> \o Tail(pat), Tail(s))
    ELSE Len(s) > 0 /\ elem_accepts(pat[1], s[1]) /\ pat_match(Tail(pat), Tail(s))

(***************************************************************************)
(* match_hostname.  A decoded certificate (SSLSocket.getpeercert()) is a   *)
(* record: empty (the dict is empty or None), subjectAltName (a sequence   *)
(* of <<key, value>>), subject (a sequence of RDNs, each a sequence of     *)
(* <<key, value>>) and notAfter.                                           *)
(***************************************************************************)
RECURSIVE flatten(_)
flatten(subject) ==
    IF Len(subject) = 0 THEN <<>> ELSE subject[1] \o flatten(Tail(subject))

\* lines 254-258 and 263-269: scan the pairs from index i on; a pair with the
\* wanted key returns at once when its pattern matches, and is collected
\* otherwise.
RECURSIVE scan(_, _, _, _, _)
scan(pairs, key, i, hostname, dnsnames) ==
    IF i > Len(pairs) THEN [matched |-> FALSE, dnsnames |-> dnsnames]
    ELSE IF pairs[i][1] = key
         THEN IF pat_match(dnsname_to_pat(pairs[i][2]), hostname)
              THEN [matched |-> TRUE, dnsnames |-> dnsnames]
              ELSE scan(pairs, key, i + 1, hostname, Append(dnsnames, pairs[i][2]))
    ELSE scan(pairs, key, i + 1, hostname, dnsnames)

Returned == [raised |-> "none", msg |-> "", dnsnames |-> <<>>]

\* (as certificate_error, without the branch of line 270)
certificate_error_one_name(dnsnames) ==
    [raised |-> "CertificateError",
     msg |-> IF Len(dnsnames) >= 1 THEN "doesn't match"
             ELSE "no appropriate commonName or subjectAltName fields were found",
     dnsnames |-> IF Len(dnsnames) >= 1 THEN <<dnsnames[1]>> ELSE <<>>]

\* lines 270-280
certificate_error(dnsnames) ==
    [raised |-> "CertificateError",
     msg |-> IF Len(dnsnames) > 1 THEN "doesn't match either of"
             ELSE IF Len(dnsnames) = 1 THEN "doesn't match"
             ELSE "no appropriate commonName or subjectAltName fields were found",
     dnsnames |-> dnsnames]

\* (as subject_checked, without the test of line 259)
subject_checked_always(dnsnames) == TRUE
\* line 259: whether the subject is scanned
subject_checked(dnsnames) == Len(dnsnames) = 0

match_hostname(cert, hostname) ==
    IF cert.empty
    THEN [raised |-> "ValueError", msg |-> "empty or no certificate", dnsnames |-> <<>>]
    ELSE LET san == scan(cert.subjectAltName, "DNS", 1, hostname, <<>>)
         IN  IF san.matched THEN Returned
             ELSE IF ~subject_checked(san.dnsnames)
                  THEN certificate_error(san.dnsnames)
             ELSE LET sub == scan(flatten(cert.subject), "commonName", 1,
                                  hostname, san.dnsnames)
                  IN  IF sub.matched THEN Returned
                      ELSE certificate_error(sub.dnsnames)

(***************************************************************************)
(* Inputs of the two pure functions.                                       *)
(***************************************************************************)
NameChars == {"a", "b", "*", "."}
HostChars == {"a", "B", "."}
Names == SeqsUpTo(NameChars, MaxNameLen)
Hosts == SeqsUpTo(HostChars, MaxHostLen)

n_a_b    == <<"a", ".", "b">>
n_b_b    == <<"b", ".", "b">>
n_star_b == <<"*", ".", "b">>
h_a_b    == <<"a", ".", "b">>
h_B_b    == <<"B", ".", "b">>
h_a_a    == <<"a", ".", "a">>

CertNames == {n_a_b, n_b_b, n_star_b}
SanEntries == {<<"DNS", n>> : n \in CertNames} \cup {<<"IP Address", n_a_b>>}
CommonNames == {<<"commonName", n>> : n \in CertNames}
Organization == <<"organizationName", n_a_b>>
RDNs == {<<p>> : p \in CommonNames \cup {Organization}}
            \cup {<<Organization, p>> : p \in CommonNames}
MatchHosts == {h_a_b, h_B_b, h_a_a}

NotAfterDay(d) == [kind |-> "date", day |-> d]
Cert(san, subject, notAfter) ==
    [empty |-> FALSE, subjectAltName |-> san, subject |-> subject,
     notAfter |-> notAfter]
EmptyCert ==
    [empty |-> TRUE, subjectAltName |-> <<>>, subject |-> <<>>,
     notAfter |-> [kind |-> "missing", day |-> 0]]
MatchCerts ==
    {EmptyCert} \cup
    {Cert(san, sub, NotAfterDay(Today)) :
        san \in SeqsUpTo(SanEntries, MaxSan), sub \in SeqsUpTo(RDNs, MaxSubject)}

(***************************************************************************)
(* The state of one run of the plugin.                                     *)
(***************************************************************************)
VARIABLES
    already_tested,     \* self._already_tested: the domains added
    min_expire_days,    \* self._min_expire_days
    kb,                 \* kb.kb: the findings appended, in order
    pc,                 \* where each audit() call stands
    freq,               \* the URL of each call's request
    sslv2,              \* how each call's SSLv2 handshake ended
    probe,              \* what each call's strict handshake met
    conn,               \* the connections each call holds open
    pure                \* one call of _dnsname_to_pat or match_hostname

vars == <<already_tested, min_expire_days, kb, pc, freq, sslv2, probe, conn, pure>>

Calls == 1..MaxCalls

\* line 56
DefaultMinExpireDays == 30
MinExpireOptions == {0}

Domains == {h_a_b, h_B_b}
Ports == {443, 8443}
Protocols == {"https", "http"}
Requests == [domain : Domains, port : Ports, protocol : Protocols]
\* the requests of the runs of concurrent calls: one port
ConcRequests == {f \in Requests : f.port = 443}
NoRequest == [domain |-> <<>>, port |-> 0, protocol |-> ""]

\* str.upper() on the protocols of the model
Upper(p) == IF p = "https" THEN "HTTPS" ELSE IF p = "http" THEN "HTTP" ELSE p

\* scalable_bloomfilter: no false negative; a false positive (fp) is possible
\* once something was added.
BloomContains(bf, d, fp) == d \in bf \/ (fp /\ bf # {})
BloomAdd(bf, d) == bf \cup {d}

(***************************************************************************)
(* What the strict handshake of lines 96-102 can meet.                     *)
(*   cause "refused", "reset", "connect_timeout": the socket fails         *)
(*   cause "handshake_timeout": the handshake times out                    *)
(*   cause "ssl_error": OpenSSL fails the handshake, str(e) = text         *)
(*   cause "none": the handshake completes, getpeercert() = cert           *)
(***************************************************************************)
SocketFailures == {"refused", "reset", "connect_timeout"}
Env(cause, text, cert) == [cause |-> cause, text |-> text, cert |-> cert]
NoEnv == Env("", <<>>, EmptyCert)

Words == {<<"x">>, <<"CERTIFICATE">>}
ErrTexts == {join(cs, ":") : cs \in SeqsUpTo(Words, MaxChunks) \ {<<>>}}
\* "_ssl.c:489: The handshake operation timed out"
TimedOutText == <<"_ssl.c", ":", "489", ":", "The handshake operation timed out">>
\* the usual text of a failed verification:
\* "[Errno 1] _ssl.c:503: error:14090086:SSL routines:SSL3_GET_SERVER_CERTIFICATE:certificate verify failed"
VerifyFailedText ==
    <<"x", ":", "x", ":", "x", ":", "x", ":", "x", ":", "CERTIFICATE", ":", "x">>
NoCipherText == <<"x", ":", "x">>

NotAfters ==
    {NotAfterDay(Today + d) : d \in {-1, 0, 29, 30, 31}}
        \cup {[kind |-> "missing", day |-> 0], [kind |-> "unparsable", day |-> 0]}

ServerCerts ==
    {EmptyCert} \cup
    {Cert(san, sub, na) :
        san \in SeqsUpTo(SanEntries, 1), sub \in SeqsUpTo(RDNs, 1), na \in NotAfters}

RichEnv ==
    {Env(c, <<>>, EmptyCert) : c \in SocketFailures \cup {"handshake_timeout"}}
        \cup {Env("ssl_error", t, EmptyCert) : t \in ErrTexts}
        \cup {Env("none", <<>>, cert) : cert \in ServerCerts}

SmallEnv ==
    { Env("refused", <<>>, EmptyCert),
      Env("handshake_timeout", <<>>, EmptyCert),
      Env("ssl_error", VerifyFailedText, EmptyCert),
      Env("ssl_error", NoCipherText, EmptyCert),
      Env("none", <<>>, EmptyCert),
      Env("none", <<>>, Cert(<<<<"DNS", n_star_b>>>>, <<>>, NotAfterDay(Today + 31))),
      Env("none", <<>>, Cert(<<<<"DNS", n_a_b>>>>, <<>>, NotAfterDay(Today + 29))),
      Env("none", <<>>, Cert(<<<<"DNS", n_star_b>>>>, <<>>,
                             [kind |-> "unparsable", day |-> 0])) }

\* one input per path of lines 96-164, for the runs of concurrent calls
ConcEnv ==
    { Env("refused", <<>>, EmptyCert),
      Env("ssl_error", VerifyFailedText, EmptyCert),
      Env("ssl_error", NoCipherText, EmptyCert),
      Env("none", <<>>, Cert(<<<<"DNS", n_star_b>>>>, <<>>, NotAfterDay(Today + 31))),
      Env("none", <<>>, Cert(<<<<"DNS", n_star_b>>>>, <<>>, NotAfterDay(Today + 29))),
      Env("none", <<>>, Cert(<<<<"DNS", n_star_b>>>>, <<>>,
                             [kind |-> "unparsable", day |-> 0])) }

(***************************************************************************)
(* Lines 96-102 as the exception they end with.  In Python 2 ssl.SSLError  *)
(* is a subclass of socket.error, a refused or reset connection and a      *)
(* timed-out connect raise socket.error or socket.timeout, and a timed-out *)
(* handshake raises ssl.SSLError("The handshake operation timed out").     *)
(***************************************************************************)
Exc(class, text) == [class |-> class, text |-> text]

connect_raises(e) ==
    IF e.cause \in SocketFailures THEN Exc("socket.error", <<>>)
    ELSE IF e.cause = "handshake_timeout" THEN Exc("SSLError", TimedOutText)
    ELSE IF e.cause = "ssl_error" THEN Exc("SSLError", e.text)
    ELSE Exc("none", <<>>)

\* lines 97-102
try_handshake(e, domain) ==
    IF connect_raises(e).class # "none" THEN connect_raises(e)
    ELSE LET m == match_hostname(e.cert, domain)
         IN  IF m.raised = "none" THEN Exc("none", <<>>) ELSE Exc(m.raised, <<>>)

\* line 103: the except clause that reports
caught(exc) == exc.class \in {"SSLError", "CertificateError"}

\* line 109
DetailChunks == 7

\* lines 105-110
details_of(exc) ==
    LET err_chunks == split(exc.text, ":")
    IN  IF exc.class = "SSLError" /\ Len(err_chunks) = DetailChunks
        THEN err_chunks[6] \o <<":">> \o err_chunks[7]
        ELSE exc.text

\* lines 104-112
invalid_cert(exc) ==
    \/ exc.class = "CertificateError"
    \/ exc.class = "SSLError" /\ Contains(details_of(exc), "CERTIFICATE")

\* lines 103-137: the branch taken on the exception, as the probe's outcome
outcome_of(exc) ==
    IF exc.class = "none" THEN "Success"
    ELSE IF ~caught(exc) THEN "ConnectionFailed"
    ELSE IF invalid_cert(exc) THEN "InvalidCertificate"
    ELSE "InvalidConnection"

(***************************************************************************)
(* Findings: vuln.vuln() with setSeverity(severity.LOW), or info.info().   *)
(***************************************************************************)
\* the severity an info.info() object reports
info_severity == "INFORMATION"

Finding(c, tag, name, sev) ==
    [req |-> c, url |-> freq[c], tag |-> tag, name |-> name, severity |-> sev]

\* lines 84-92
ssl_v2_vuln(c) == Finding(c, "ssl_v2", "Insecure SSL version", "LOW")
\* (as handshake_finding, with a vuln object built in both branches)
handshake_finding_vuln(c, exc) ==
    IF invalid_cert(exc)
    THEN Finding(c, "invalid_ssl_cert", "Invalid SSL certificate", "LOW")
    ELSE Finding(c, "invalid_ssl_connect", "Invalid SSL connection", "LOW")
\* lines 114-131
handshake_finding(c, exc) ==
    IF invalid_cert(exc)
    THEN Finding(c, "invalid_ssl_cert", "Invalid SSL certificate", "LOW")
    ELSE Finding(c, "invalid_ssl_connect", "Invalid SSL connection", info_severity)
\* lines 147-152
soon_expire_info(c) ==
    Finding(c, "ssl_soon_expire", "Soon expire SSL certificate", info_severity)
\* lines 159-164
certificate_info(c) == Finding(c, "certificate", "SSL Certificate", info_severity)

\* lines 144-145
expire_days(notAfter) == notAfter.day - Today
\* line 146
soon_expiring(days, threshold) == days < threshold

(***************************************************************************)
(* __init__ (lines 52-57) and the state before any call.                   *)
(***************************************************************************)
IdlePure ==
    [fn |-> "", dn |-> <<>>, cert |-> EmptyCert, hostname |-> <<>>,
     done |-> FALSE, matched |-> FALSE, result |-> Returned]

InitPlugin ==
    /\ already_tested = {}
    /\ min_expire_days = DefaultMinExpireDays
    /\ kb = <<>>
    /\ pc = [c \in Calls |-> "NotStarted"]
    /\ freq = [c \in Calls |-> NoRequest]
    /\ sslv2 = [c \in Calls |-> ""]
    /\ probe = [c \in Calls |-> NoEnv]
    /\ conn = [c \in Calls |-> {}]

Init ==
    /\ InitPlugin
    /\ pure = IdlePure

Returned_pcs == {"Skipped", "Done", "Raised"}

(***************************************************************************)
(* set_options (lines 205-206): the options are set before the run.        *)
(***************************************************************************)
set_options(v) ==
    /\ \A c \in Calls : pc[c] = "NotStarted"
    /\ min_expire_days' = v
    /\ UNCHANGED <<already_tested, kb, pc, freq, sslv2, probe, conn, pure>>

\* (as AuditCheck, with the add of line 71 made before the test of line 68
\* sends a request that is not HTTPS away)
AuditCheck_adds_first(c, f, fp) ==
    /\ pc[c] = "NotStarted"
    /\ \A o \in Calls : o < c => pc[o] # "NotStarted"
    /\ freq' = [freq EXCEPT ![c] = f]
    /\ pc' = [pc EXCEPT ![c] =
                IF "HTTPS" # Upper(f.protocol)
                   \/ BloomContains(already_tested, f.domain, fp)
                THEN "Skipped" ELSE "Checked"]
    /\ already_tested' = IF "HTTPS" # Upper(f.protocol)
                         THEN BloomAdd(already_tested, f.domain)
                         ELSE already_tested
    /\ UNCHANGED <<min_expire_days, kb, sslv2, probe, conn, pure>>

(***************************************************************************)
(* audit(freq), lines 65-69: the call c begins with request f; calls begin *)
(* in the order of their numbers.                                          *)
(***************************************************************************)
AuditCheck(c, f, fp) ==
    /\ pc[c] = "NotStarted"
    /\ \A o \in Calls : o < c => pc[o] # "NotStarted"
    /\ freq' = [freq EXCEPT ![c] = f]
    /\ pc' = [pc EXCEPT ![c] =
                IF "HTTPS" # Upper(f.protocol)
                   \/ BloomContains(already_tested, f.domain, fp)
                THEN "Skipped" ELSE "Checked"]
    /\ UNCHANGED <<already_tested, min_expire_days, kb, sslv2, probe, conn, pure>>

\* (as AuditAdd, without the add of line 71)
AuditAdd_forgets(c) ==
    /\ pc[c] = "Checked"
    /\ pc' = [pc EXCEPT ![c] = "Added"]
    /\ UNCHANGED <<already_tested, min_expire_days, kb, freq, sslv2, probe, conn, pure>>

\* line 71
AuditAdd(c) ==
    /\ pc[c] = "Checked"
    /\ already_tested' = BloomAdd(already_tested, freq[c].domain)
    /\ pc' = [pc EXCEPT ![c] = "Added"]
    /\ UNCHANGED <<min_expire_days, kb, freq, sslv2, probe, conn, pure>>

\* (as LegacyProbe, with the finding built in the except branch too)
LegacyProbe_always_reports(c, accepted) ==
    /\ pc[c] = "Added"
    /\ sslv2' = [sslv2 EXCEPT ![c] = IF accepted THEN "Accepted" ELSE "Rejected"]
    /\ kb' = Append(kb, ssl_v2_vuln(c))
    /\ conn' = [conn EXCEPT ![c] = IF accepted THEN {"sslv2"} ELSE {}]
    /\ pc' = [pc EXCEPT ![c] = "LegacyProbed"]
    /\ UNCHANGED <<already_tested, min_expire_days, freq, probe, pure>>

\* lines 73-93: the SSLv2 handshake; the connection of an accepted handshake
\* is not closed here.
LegacyProbe(c, accepted) ==
    /\ pc[c] = "Added"
    /\ sslv2' = [sslv2 EXCEPT ![c] = IF accepted THEN "Accepted" ELSE "Rejected"]
    /\ kb' = IF accepted THEN Append(kb, ssl_v2_vuln(c)) ELSE kb
    /\ conn' = [conn EXCEPT ![c] = IF accepted THEN {"sslv2"} ELSE {}]
    /\ pc' = [pc EXCEPT ![c] = "LegacyProbed"]
    /\ UNCHANGED <<already_tested, min_expire_days, freq, probe, pure>>

\* (as CertProbe, without the return of line 133)
CertProbe_no_return(c, e, collected) ==
    /\ pc[c] = "LegacyProbed"
    /\ probe' = [probe EXCEPT ![c] = e]
    /\ LET exc == try_handshake(e, freq[c].domain)
       IN  /\ kb' = IF caught(exc) THEN Append(kb, handshake_finding(c, exc)) ELSE kb
           /\ pc' = [pc EXCEPT ![c] =
                       IF exc.class = "none" \/ caught(exc) THEN "CertProbed" ELSE "Done"]
    /\ conn' = [conn EXCEPT ![c] =
                  (IF collected THEN {} ELSE conn[c])
                      \cup (IF e.cause = "none" THEN {"cert"} ELSE {})]
    /\ UNCHANGED <<already_tested, min_expire_days, freq, sslv2, pure>>

\* (as CertProbe, begun without waiting for the SSLv2 probe to end)
CertProbe_early(c, e, collected) ==
    /\ pc[c] \in {"Added", "LegacyProbed"}
    /\ probe' = [probe EXCEPT ![c] = e]
    /\ LET exc == try_handshake(e, freq[c].domain)
       IN  /\ kb' = IF caught(exc) THEN Append(kb, handshake_finding(c, exc)) ELSE kb
           /\ pc' = [pc EXCEPT ![c] = IF exc.class = "none" THEN "CertProbed" ELSE "Done"]
    /\ conn' = [conn EXCEPT ![c] =
                  (IF collected THEN {} ELSE conn[c])
                      \cup (IF e.cause = "none" THEN {"cert"} ELSE {})]
    /\ UNCHANGED <<already_tested, min_expire_days, freq, sslv2, pure>>

\* (as CertProbe, with the domain taken out of _already_tested when the
\* connection fails, so that it is tried again)
CertProbe_retry(c, e, collected) ==
    /\ pc[c] = "LegacyProbed"
    /\ probe' = [probe EXCEPT ![c] = e]
    /\ LET exc == try_handshake(e, freq[c].domain)
       IN  /\ kb' = IF caught(exc) THEN Append(kb, handshake_finding(c, exc)) ELSE kb
           /\ pc' = [pc EXCEPT ![c] = IF exc.class = "none" THEN "CertProbed" ELSE "Done"]
           /\ already_tested' = IF exc.class # "none" /\ ~caught(exc)
                                THEN already_tested \ {freq[c].domain}
                                ELSE already_tested
    /\ conn' = [conn EXCEPT ![c] =
                  (IF collected THEN {} ELSE conn[c])
                      \cup (IF e.cause = "none" THEN {"cert"} ELSE {})]
    /\ UNCHANGED <<min_expire_days, freq, sslv2, pure>>

\* lines 95-137: the strict handshake and match_hostname.  Rebinding ssl_sock
\* (line 97) drops the last reference to the SSLv2 socket, which closes it at
\* once (collected) or leaves it to a later collection.
CertProbe(c, e, collected) ==
    /\ pc[c] = "LegacyProbed"
    /\ probe' = [probe EXCEPT ![c] = e]
    /\ LET exc == try_handshake(e, freq[c].domain)
       IN  /\ kb' = IF caught(exc) THEN Append(kb, handshake_finding(c, exc)) ELSE kb
           /\ pc' = [pc EXCEPT ![c] = IF exc.class = "none" THEN "CertProbed" ELSE "Done"]
    /\ conn' = [conn EXCEPT ![c] =
                  (IF collected THEN {} ELSE conn[c])
                      \cup (IF e.cause = "none" THEN {"cert"} ELSE {})]
    /\ UNCHANGED <<already_tested, min_expire_days, freq, sslv2, pure>>

\* (as ReportCert, returning after the ssl_soon_expire finding)
ReportCert_soon_only(c) ==
    /\ pc[c] = "CertProbed"
    /\ conn' = [conn EXCEPT ![c] = conn[c] \ {"cert"}]
    /\ LET notAfter == probe[c].cert.notAfter
       IN  IF notAfter.kind # "date"
           THEN /\ pc' = [pc EXCEPT ![c] = "Raised"]
                /\ kb' = kb
           ELSE /\ pc' = [pc EXCEPT ![c] = "Done"]
                /\ kb' = IF soon_expiring(expire_days(notAfter), min_expire_days)
                         THEN Append(kb, soon_expire_info(c))
                         ELSE Append(kb, certificate_info(c))
    /\ UNCHANGED <<already_tested, min_expire_days, freq, sslv2, probe, pure>>

\* lines 139-164: ssl_sock.close(), the expiry check and the certificate dump;
\* line 144 raises on a notAfter that is missing or cannot be parsed.
ReportCert(c) ==
    /\ pc[c] = "CertProbed"
    /\ conn' = [conn EXCEPT ![c] = conn[c] \ {"cert"}]
    /\ LET notAfter == probe[c].cert.notAfter
       IN  IF notAfter.kind # "date"
           THEN /\ pc' = [pc EXCEPT ![c] = "Raised"]
                /\ kb' = kb
           ELSE /\ pc' = [pc EXCEPT ![c] = "Done"]
                /\ kb' = (IF soon_expiring(expire_days(notAfter), min_expire_days)
                          THEN Append(kb, soon_expire_info(c)) ELSE kb)
                         \o <<certificate_info(c)>>
    /\ UNCHANGED <<already_tested, min_expire_days, freq, sslv2, probe, pure>>

(***************************************************************************)
(* The run: the framework's workers call audit() concurrently.             *)
(***************************************************************************)
Check == \E c \in Calls, f \in ConcRequests, fp \in BOOLEAN : AuditCheck(c, f, fp)
Add == \E c \in Calls : AuditAdd(c)
Legacy == \E c \in Calls, accepted \in BOOLEAN : LegacyProbe(c, accepted)
Strict == \E c \in Calls, e \in ConcEnv, collected \in BOOLEAN : CertProbe(c, e, collected)
Report == \E c \in Calls : ReportCert(c)
Options == \E v \in MinExpireOptions : set_options(v)

Next == Options \/ Check \/ Add \/ Legacy \/ Strict \/ Report

Spec == Init /\ [][Next]_vars

(***************************************************************************)
(* The run with one audit() call at a time.                                *)
(***************************************************************************)
Alone(c) == \A o \in Calls \ {c} : pc[o] \in Returned_pcs \cup {"NotStarted"}

SeqCheck == \E c \in Calls, f \in Requests, fp \in BOOLEAN : Alone(c) /\ AuditCheck(c, f, fp)
SeqAdd == \E c \in Calls : Alone(c) /\ AuditAdd(c)
SeqLegacy == \E c \in Calls, accepted \in BOOLEAN : Alone(c) /\ LegacyProbe(c, accepted)
SeqStrict ==
    \E c \in Calls, e \in SmallEnv, collected \in BOOLEAN :
        Alone(c) /\ CertProbe(c, e, collected)
SeqReport == \E c \in Calls : Alone(c) /\ ReportCert(c)

NextSeq == Options \/ SeqCheck \/ SeqAdd \/ SeqLegacy \/ SeqStrict \/ SeqReport

SpecSeq == Init /\ [][NextSeq]_vars

(***************************************************************************)
(* One audit() call, over every input of the model.                        *)
(***************************************************************************)
OneCheck == \E f \in Requests, fp \in BOOLEAN : AuditCheck(1, f, fp)
OneAdd == AuditAdd(1)
OneLegacy == \E accepted \in BOOLEAN : LegacyProbe(1, accepted)
OneStrict == \E e \in RichEnv, collected \in BOOLEAN : CertProbe(1, e, collected)
OneReport == ReportCert(1)

NextOne == Options \/ OneCheck \/ OneAdd \/ OneLegacy \/ OneStrict \/ OneReport

SpecOne == Init /\ [][NextOne]_vars

(***************************************************************************)
(* _dnsname_to_pat(dn).match(hostname) on every name and hostname.         *)
(***************************************************************************)
InitPat ==
    /\ InitPlugin
    /\ \E dn \in Names, h \in Hosts :
          pure = [IdlePure EXCEPT !.fn = "_dnsname_to_pat", !.dn = dn, !.hostname = h]

CompileAndMatch ==
    /\ pure.fn = "_dnsname_to_pat"
    /\ ~pure.done
    /\ pure' = [pure EXCEPT !.done = TRUE,
                            !.matched = pat_match(dnsname_to_pat(pure.dn), pure.hostname)]
    /\ UNCHANGED <<already_tested, min_expire_days, kb, pc, freq, sslv2, probe, conn>>

NextPat == CompileAndMatch

SpecPat == InitPat /\ [][NextPat]_vars

(***************************************************************************)
(* match_hostname(cert, hostname) on every certificate of the model.       *)
(***************************************************************************)
InitMatch ==
    /\ InitPlugin
    /\ \E cert \in MatchCerts, h \in MatchHosts :
          pure = [IdlePure EXCEPT !.fn = "match_hostname", !.cert = cert, !.hostname = h]

CallMatchHostname ==
    /\ pure.fn = "match_hostname"
    /\ ~pure.done
    /\ pure' = [pure EXCEPT !.done = TRUE,
                            !.result = match_hostname(pure.cert, pure.hostname)]
    /\ UNCHANGED <<already_tested, min_expire_days, kb, pc, freq, sslv2, probe, conn>>

NextMatch == CallMatchHostname

SpecMatch == InitMatch /\ [][NextMatch]_vars

(***************************************************************************)
(* Vocabulary of the properties.                                           *)
(***************************************************************************)
\* the findings of call c with the given tag
Found(c, tag) == {i \in DOMAIN kb : kb[i].req = c /\ kb[i].tag = tag}
Count(c, tag) == Cardinality(Found(c, tag))
\* the strict handshake of call c was attempted (line 96 was reached)
Probed(c) == probe[c] # NoEnv
\* call c went past the test of line 68
Proceeded(c) == pc[c] \notin {"NotStarted", "Skipped"}
\* call c is past its SSLv2 probe
PastLegacy(c) == pc[c] \in {"LegacyProbed", "CertProbed", "Done", "Raised"}
\* the outcome of the strict probe of call c
Outcome(c) == outcome_of(try_handshake(probe[c], freq[c].domain))
CertTags == {"invalid_ssl_cert", "invalid_ssl_connect", "ssl_soon_expire", "certificate"}

(***************************************************************************)
(* C1.  In a run of audit() calls made one after the other, the strict     *)
(* handshake is attempted at most once per domain: a call for a domain     *)
(* that an earlier call has audited, whatever its port, is Skipped (it     *)
(* returned at line 69 without raising) and attempted no handshake.        *)
(***************************************************************************)
C1_ProbeOncePerDomain ==
    /\ \A c1, c2 \in Calls :
          (c1 # c2 /\ Probed(c1) /\ Probed(c2)) => freq[c1].domain # freq[c2].domain
    /\ \A c, o \in Calls :
          (o < c /\ pc[c] # "NotStarted" /\ Proceeded(o)
               /\ freq[o].domain = freq[c].domain)
            => (pc[c] = "Skipped" /\ ~Probed(c) /\ conn[c] = {})

C1_Witness ==
    \E c, o \in Calls :
        /\ o < c /\ pc[o] = "Done" /\ Probed(o) /\ pc[c] = "Skipped"
        /\ freq[o].domain = freq[c].domain /\ freq[o].port # freq[c].port
        /\ freq[c].protocol = "https"

(***************************************************************************)
(* C2.  Of two audit() calls for the same domain that run concurrently,    *)
(* at most one goes past the test of line 68 (the test and the add of      *)
(* line 71 act as one atomic step).                                        *)
(***************************************************************************)
C2_AtMostOneProceeds ==
    \A c1, c2 \in Calls :
        (c1 # c2 /\ freq[c1].domain = freq[c2].domain)
            => ~(Proceeded(c1) /\ Proceeded(c2))

(***************************************************************************)
(* C3.  A call past its SSLv2 probe has exactly one ssl_v2 finding, of     *)
(* severity LOW, when the SSLv2 handshake was accepted, and none when it   *)
(* was rejected; in every later state of the call, whatever the strict     *)
(* handshake met.                                                          *)
(***************************************************************************)
C3_LegacyFindingIffAccepted ==
    \A c \in Calls :
        /\ PastLegacy(c) =>
              /\ sslv2[c] \in {"Accepted", "Rejected"}
              /\ Count(c, "ssl_v2") = (IF sslv2[c] = "Accepted" THEN 1 ELSE 0)
              /\ \A i \in Found(c, "ssl_v2") : kb[i].severity = "LOW"
        /\ ~PastLegacy(c) => Count(c, "ssl_v2") = 0

C3_Witness ==
    \E c \in Calls :
        /\ pc[c] = "Done" /\ sslv2[c] = "Accepted"
        /\ Outcome(c) = "InvalidCertificate"
        /\ Count(c, "ssl_v2") = 1

(***************************************************************************)
(* C4.  A call whose strict probe succeeded (the handshake completed and   *)
(* match_hostname returned) has, once it ended, exactly one certificate    *)
(* finding, and a ssl_soon_expire finding exactly when the days until      *)
(* notAfter are fewer than min_expire_days.                                *)
(***************************************************************************)
C4_SuccessFindings ==
    \A c \in Calls :
        (pc[c] \in Returned_pcs /\ Probed(c) /\ Outcome(c) = "Success")
            => /\ Count(c, "certificate") = 1
               /\ Count(c, "ssl_soon_expire") =
                     (IF probe[c].cert.notAfter.day - Today < min_expire_days
                      THEN 1 ELSE 0)

(***************************************************************************)
(* C5.  A call whose strict probe ended in InvalidCertificate has exactly  *)
(* one invalid_ssl_cert finding, of severity LOW, and no certificate, no   *)
(* ssl_soon_expire and no invalid_ssl_connect finding, and has returned.   *)
(***************************************************************************)
C5_InvalidCertificateFinding ==
    \A c \in Calls :
        (Probed(c) /\ Outcome(c) = "InvalidCertificate")
            => /\ pc[c] = "Done"
               /\ Count(c, "invalid_ssl_cert") = 1
               /\ \A i \in Found(c, "invalid_ssl_cert") : kb[i].severity = "LOW"
               /\ Count(c, "certificate") = 0
               /\ Count(c, "ssl_soon_expire") = 0
               /\ Count(c, "invalid_ssl_connect") = 0

C5_Witness ==
    \E c \in Calls :
        /\ Probed(c) /\ probe[c].cause = "ssl_error"
        /\ Outcome(c) = "InvalidCertificate"
        /\ Count(c, "invalid_ssl_cert") = 1

(***************************************************************************)
(* C6.  A call whose handshake completed (the chain was trusted) and whose *)
(* certificate fails the identity check, be it a mismatch, no identity     *)
(* field or an empty certificate, has an invalid_ssl_cert finding.         *)
(***************************************************************************)
C6_IdentityFailureReported ==
    \A c \in Calls :
        (Probed(c) /\ probe[c].cause = "none"
             /\ match_hostname(probe[c].cert, freq[c].domain).raised # "none")
            => Count(c, "invalid_ssl_cert") = 1

(***************************************************************************)
(* C7.  A call whose strict probe failed at the socket (refused, reset, a  *)
(* timeout of the connect or of the handshake) returned with none of the   *)
(* certificate findings.                                                   *)
(***************************************************************************)
C7_SocketFailureSilent ==
    \A c \in Calls :
        (Probed(c) /\ probe[c].cause \in SocketFailures \cup {"handshake_timeout"})
            => /\ pc[c] = "Done"
               /\ \A tag \in CertTags : Count(c, tag) = 0

(***************************************************************************)
(* C8.  A call whose handshake raised an ssl.SSLError has an               *)
(* invalid_ssl_cert finding (LOW) when the text of the error holds         *)
(* CERTIFICATE anywhere, and an invalid_ssl_connect finding (INFORMATION)  *)
(* otherwise.                                                              *)
(***************************************************************************)
C8_ClassifiedBySubstring ==
    \A c \in Calls :
        (Probed(c) /\ probe[c].cause = "ssl_error")
            => IF Contains(probe[c].text, "CERTIFICATE")
               THEN /\ Count(c, "invalid_ssl_cert") = 1
                    /\ Count(c, "invalid_ssl_connect") = 0
                    /\ \A i \in Found(c, "invalid_ssl_cert") : kb[i].severity = "LOW"
               ELSE /\ Count(c, "invalid_ssl_connect") = 1
                    /\ Count(c, "invalid_ssl_cert") = 0
                    /\ \A i \in Found(c, "invalid_ssl_connect") :
                          kb[i].severity = "INFORMATION"

(***************************************************************************)
(* C9.  For a certificate with at least one DNS entry in subjectAltName,   *)
(* match_hostname returns exactly when the pattern of some DNS entry       *)
(* matches the hostname, and otherwise raises CertificateError naming the  *)
(* DNS values of subjectAltName, in order; the commonNames of the subject  *)
(* play no part.                                                           *)
(***************************************************************************)
RECURSIVE dns_values(_)
dns_values(san) ==
    IF Len(san) = 0 THEN <<>>
    ELSE (IF san[1][1] = "DNS" THEN <<san[1][2]>> ELSE <<>>) \o dns_values(Tail(san))

SanMatches(cert, hostname) ==
    \E i \in 1..Len(cert.subjectAltName) :
        /\ cert.subjectAltName[i][1] = "DNS"
        /\ pat_match(dnsname_to_pat(cert.subjectAltName[i][2]), hostname)

CnMatches(cert, hostname) ==
    \E i \in 1..Len(cert.subject) : \E j \in 1..Len(cert.subject[i]) :
        /\ cert.subject[i][j][1] = "commonName"
        /\ pat_match(dnsname_to_pat(cert.subject[i][j][2]), hostname)

C9_SanTakesPrecedence ==
    (pure.fn = "match_hostname" /\ pure.done /\ ~pure.cert.empty
         /\ Len(dns_values(pure.cert.subjectAltName)) > 0)
      => IF SanMatches(pure.cert, pure.hostname)
         THEN pure.result = Returned
         ELSE /\ pure.result.raised = "CertificateError"
              /\ pure.result.dnsnames = dns_values(pure.cert.subjectAltName)
              /\ pure.result.msg # "no appropriate commonName or subjectAltName fields were found"

C9_Witness ==
    /\ pure.fn = "match_hostname" /\ pure.done
    /\ Len(dns_values(pure.cert.subjectAltName)) = 2
    /\ ~SanMatches(pure.cert, pure.hostname)
    /\ CnMatches(pure.cert, pure.hostname)
    /\ pure.result.raised = "CertificateError"
    /\ pure.result.dnsnames = dns_values(pure.cert.subjectAltName)

(***************************************************************************)
(* C10.  The pattern of a DNS name matches a candidate exactly when both   *)
(* have the same number of dot-separated labels and each label of the      *)
(* name accepts the label of the candidate at its place: a label "*"       *)
(* accepts any non-empty label, and any other label accepts the labels     *)
(* got by replacing each of its "*" by zero or more characters (letters    *)
(* compared without case).  A label holds no dot, so no wildcard matches   *)
(* one.                                                                    *)
(***************************************************************************)
RECURSIVE glob(_, _)
glob(l, h) ==
    IF Len(l) = 0 THEN Len(h) = 0
    ELSE IF l[1] = "*"
         THEN \E k \in 0..Len(h) : glob(Tail(l), SubSeq(h, k + 1, Len(h)))
    ELSE Len(h) > 0 /\ Lower(l[1]) = Lower(h[1]) /\ glob(Tail(l), Tail(h))

label_accepts(l, h) ==
    /\ ~Contains(h, ".")
    /\ IF l = <<"*">> THEN Len(h) > 0 ELSE glob(l, h)

labels_accept(dn, hostname) ==
    LET ls == split(dn, ".")
        hs == split(hostname, ".")
    IN  /\ Len(ls) = Len(hs)
        /\ \A i \in 1..Len(ls) : label_accepts(ls[i], hs[i])

example_com == <<"e", "x", "a", "m", "p", "l", "e", ".", "c", "o", "m">>
star_example_com == <<"*", ".">> \o example_com
f_star_example_com == <<"f", "*", ".">> \o example_com
foo_example_com == <<"f", "o", "o", ".">> \o example_com
bar_example_com == <<"b", "a", "r", ".">> \o example_com
foo_bar_example_com == <<"f", "o", "o", ".">> \o bar_example_com

C10_WildcardWithinOneLabel ==
    /\ (pure.fn = "_dnsname_to_pat" /\ pure.done)
         => /\ pure.matched = labels_accept(pure.dn, pure.hostname)
            /\ pure.matched
                 => Len(split(pure.dn, ".")) = Len(split(pure.hostname, "."))
    /\ pat_match(dnsname_to_pat(star_example_com), foo_example_com)
    /\ ~pat_match(dnsname_to_pat(star_example_com), foo_bar_example_com)
    /\ ~pat_match(dnsname_to_pat(star_example_com), example_com)
    /\ pat_match(dnsname_to_pat(f_star_example_com), foo_example_com)
    /\ ~pat_match(dnsname_to_pat(f_star_example_com), bar_example_com)

C10_Witness ==
    /\ pure.fn = "_dnsname_to_pat" /\ pure.done /\ pure.matched
    /\ pure.dn = <<"a", "*", ".", "*">>
    /\ pure.hostname = <<"a", ".", "B">>

(***************************************************************************)
(* C11.  The pattern of a DNS name without "*" matches a candidate exactly *)
(* when the candidate is the name character for character (letters         *)
(* compared without case, as re.IGNORECASE has it): it matches the name    *)
(* itself, and neither the name with a character appended nor a proper     *)
(* prefix of the name.                                                     *)
(***************************************************************************)
same_text(n, h) ==
    /\ Len(n) = Len(h)
    /\ \A i \in 1..Len(n) : Lower(n[i]) = Lower(h[i])

C11_LiteralNameAnchored ==
    (pure.fn = "_dnsname_to_pat" /\ pure.done /\ ~Contains(pure.dn, "*"))
      => /\ pure.matched = same_text(pure.dn, pure.hostname)
         /\ pat_match(dnsname_to_pat(pure.dn), pure.dn)
         /\ \A ch \in NameChars \cup HostChars :
               ~pat_match(dnsname_to_pat(pure.dn), pure.dn \o <<ch>>)
         /\ \A k \in 0..(Len(pure.dn) - 1) :
               ~pat_match(dnsname_to_pat(pure.dn), SubSeq(pure.dn, 1, k))

C11_Witness ==
    /\ pure.fn = "_dnsname_to_pat" /\ pure.done /\ pure.matched
    /\ pure.dn = <<"a", ".", "a">>
    /\ pure.hostname = pure.dn

(***************************************************************************)
(* C12.  With audit() calls interleaved: a call attempts its strict        *)
(* handshake only after its SSLv2 probe has ended, and in kb the ssl_v2    *)
(* finding of a call comes before every certificate finding of that call.  *)
(***************************************************************************)
C12_LegacyBeforeCertificate ==
    /\ \A c \in Calls :
          Probed(c) => (sslv2[c] \in {"Accepted", "Rejected"} /\ PastLegacy(c))
    /\ \A c \in Calls : pc[c] \in {"NotStarted", "Skipped", "Checked", "Added"} =>
          \A tag \in CertTags : Count(c, tag) = 0
    /\ \A i, j \in DOMAIN kb :
          (kb[i].req = kb[j].req /\ kb[i].tag = "ssl_v2" /\ kb[j].tag \in CertTags)
            => i < j

C12_Witness ==
    \E i, j, k \in DOMAIN kb :
        /\ i < j /\ j < k
        /\ kb[i].req = kb[k].req /\ kb[j].req # kb[i].req
        /\ kb[i].tag = "ssl_v2" /\ kb[k].tag \in CertTags

(***************************************************************************)
(* C13.  A call whose SSLv2 probe has ended holds no open connection until *)
(* its strict handshake begins, and no call ever holds more than one open  *)
(* connection.                                                             *)
(***************************************************************************)
C13_OneConnectionAtATime ==
    \A c \in Calls :
        /\ pc[c] = "LegacyProbed" => conn[c] = {}
        /\ Cardinality(conn[c]) <= 1

(***************************************************************************)
(* C14.  No audit() call ends by raising: every call that has ended is     *)
(* Skipped or Done, whatever its probes met and whatever the certificate   *)
(* holds.                                                                  *)
(***************************************************************************)
C14_NoErrorEscapes ==
    \A c \in Calls : pc[c] \in Returned_pcs => pc[c] \in {"Skipped", "Done"}

(***************************************************************************)
(* C15.  In a run of audit() calls made one after the other, a call whose  *)
(* request is not HTTPS, or whose domain an earlier call has added to      *)
(* _already_tested, returns at line 69: it opens no connection, appends    *)
(* no finding and adds nothing to _already_tested, which holds exactly the *)
(* domains of the calls that went past line 71.                            *)
(***************************************************************************)
PastAdd(c) == pc[c] \in {"Added", "LegacyProbed", "CertProbed", "Done", "Raised"}
Started(c) == pc[c] # "NotStarted"
IsHttps(c) == Upper(freq[c].protocol) = "HTTPS"

C15_SkipLeavesNoTrace ==
    /\ \A c \in Calls : (Started(c) /\ ~IsHttps(c)) => pc[c] = "Skipped"
    /\ \A c, o \in Calls :
          (Started(c) /\ o < c /\ PastAdd(o) /\ freq[o].domain = freq[c].domain)
            => pc[c] = "Skipped"
    /\ \A c \in Calls : pc[c] = "Skipped" =>
          /\ conn[c] = {} /\ sslv2[c] = "" /\ ~Probed(c)
          /\ \A i \in DOMAIN kb : kb[i].req # c
    /\ already_tested = {freq[c].domain : c \in {o \in Calls : PastAdd(o)}}

C15_Witness ==
    \E c, o \in Calls :
        /\ o < c /\ freq[o].domain = freq[c].domain
        /\ ~IsHttps(o) /\ pc[o] = "Skipped"
        /\ IsHttps(c) /\ pc[c] = "Done" /\ Probed(c)

(***************************************************************************)
(* C16.  _already_tested only grows; it holds the domain of every call     *)
(* that went past line 71, whatever the call's probes met afterwards; and  *)
(* a call that begins while its domain is in _already_tested does not go   *)
(* past line 68, so the domain is not probed again.                        *)
(***************************************************************************)
C16_ProbedSetOnlyGrows ==
    /\ [](\A c \in Calls : PastAdd(c) => freq[c].domain \in already_tested)
    /\ [][already_tested \subseteq already_tested']_vars
    /\ [][\A c \in Calls :
             (pc[c] = "NotStarted" /\ pc'[c] # "NotStarted"
                /\ freq'[c].domain \in already_tested)
               => (pc'[c] = "Skipped" /\ already_tested' = already_tested)]_vars

C16_Witness ==
    \E c, o \in Calls :
        /\ o < c /\ freq[o].domain = freq[c].domain
        /\ pc[o] = "Done" /\ Outcome(o) = "ConnectionFailed"
        /\ IsHttps(c) /\ pc[c] = "Skipped"
        /\ freq[c].domain \in already_tested

(***************************************************************************)
(* C17.  Every finding in kb has the severity of its kind: ssl_v2 and      *)
(* invalid_ssl_cert are LOW; invalid_ssl_connect, ssl_soon_expire and      *)
(* certificate are INFORMATION.                                            *)
(***************************************************************************)
SeverityOfKind ==
    [tag \in {"ssl_v2"} \cup CertTags |->
        IF tag \in {"ssl_v2", "invalid_ssl_cert"} THEN "LOW" ELSE "INFORMATION"]

C17_SeverityFixedPerKind ==
    \A i \in DOMAIN kb :
        /\ kb[i].tag \in DOMAIN SeverityOfKind
        /\ kb[i].severity = SeverityOfKind[kb[i].tag]

C17_Witness ==
    /\ \E i, j \in DOMAIN kb :
          /\ kb[i].req # kb[j].req
          /\ kb[i].tag = "invalid_ssl_connect" /\ kb[j].tag = "invalid_ssl_connect"
    /\ \E i \in DOMAIN kb : kb[i].tag = "ssl_v2"

(***************************************************************************)
(* C18.  For a certificate that is not empty and has no DNS entry in       *)
(* subjectAltName, match_hostname returns when the pattern of some subject *)
(* commonName matches the hostname; otherwise it raises CertificateError:  *)
(* "no appropriate commonName or subjectAltName fields were found" with no *)
(* commonName, "doesn't match" with the one commonName, and "doesn't match *)
(* either of" with every commonName, in the order of the subject.          *)
(***************************************************************************)
RECURSIVE cn_values(_)
cn_values(pairs) ==
    IF Len(pairs) = 0 THEN <<>>
    ELSE (IF pairs[1][1] = "commonName" THEN <<pairs[1][2]>> ELSE <<>>)
             \o cn_values(Tail(pairs))

C18_CommonNameFallback ==
    (pure.fn = "match_hostname" /\ pure.done /\ ~pure.cert.empty
         /\ Len(dns_values(pure.cert.subjectAltName)) = 0)
      => LET names == cn_values(flatten(pure.cert.subject))
         IN  IF CnMatches(pure.cert, pure.hostname)
             THEN pure.result = Returned
             ELSE /\ pure.result.raised = "CertificateError"
                  /\ pure.result.dnsnames = names
                  /\ Len(names) = 0 =>
                        pure.result.msg =
                          "no appropriate commonName or subjectAltName fields were found"
                  /\ Len(names) = 1 => pure.result.msg = "doesn't match"
                  /\ Len(names) > 1 => pure.result.msg = "doesn't match either of"

C18_Witness ==
    /\ pure.fn = "match_hostname" /\ pure.done /\ ~pure.cert.empty
    /\ Len(dns_values(pure.cert.subjectAltName)) = 0
    /\ Len(pure.cert.subjectAltName) > 0
    /\ pure.result.msg = "doesn't match either of"
    /\ Len(pure.result.dnsnames) = 2
    /\ pure.result.dnsnames[1] # pure.result.dnsnames[2]

(***************************************************************************)
(* C19.  A call that went past line 68 ends Done, after its SSLv2 probe    *)
(* and its strict handshake: while it has not ended it can always take its *)
(* next step, and when it has ended it is Done with both probes made.      *)
(***************************************************************************)
InProgress(c) == pc[c] \in {"Checked", "Added", "LegacyProbed", "CertProbed"}

C19_EveryAuditEndsDone ==
    \A c \in Calls :
        /\ InProgress(c) => ENABLED (SeqAdd \/ SeqLegacy \/ SeqStrict \/ SeqReport)
        /\ (Proceeded(c) /\ ~InProgress(c)) =>
              /\ pc[c] = "Done"
              /\ sslv2[c] \in {"Accepted", "Rejected"}
              /\ Probed(c)

(***************************************************************************)
(* C20.  In a run of audit() calls made one after the other, kb holds for  *)
(* each domain at most one ssl_v2 finding and at most one finding among    *)
(* invalid_ssl_cert, invalid_ssl_connect and certificate, and it holds an  *)
(* ssl_soon_expire finding for a domain only with a certificate finding    *)
(* for that domain.                                                        *)
(***************************************************************************)
OfDomain(d, tags) == {i \in DOMAIN kb : kb[i].url.domain = d /\ kb[i].tag \in tags}

C20_OneResultPerDomain ==
    \A d \in Domains :
        /\ Cardinality(OfDomain(d, {"ssl_v2"})) <= 1
        /\ Cardinality(OfDomain(d, {"invalid_ssl_cert", "invalid_ssl_connect",
                                    "certificate"})) <= 1
        /\ Cardinality(OfDomain(d, {"ssl_soon_expire"})) <= 1
        /\ OfDomain(d, {"ssl_soon_expire"}) # {} => OfDomain(d, {"certificate"}) # {}

C20_Witness ==
    \E d, e \in Domains :
        /\ d # e
        /\ OfDomain(d, {"ssl_v2"}) # {}
        /\ OfDomain(d, {"ssl_soon_expire"}) # {}
        /\ OfDomain(d, {"certificate"}) # {}
        /\ OfDomain(e, {"invalid_ssl_cert", "invalid_ssl_connect"}) # {}

=============================================================================
